---- MODULE Spec2Model ----
(***************************************************************************)
(* Model of src/src/twitch.py: the paginated top-streamer fetch            *)
(* (get_top_streamers), the single-channel chatter fetch                   *)
(* (get_current_viewers) and the concurrent viewer-map builder             *)
(* (get_viewer_map).                                                       *)
(*                                                                         *)
(* The HTTP session and the two remote endpoints are the environment: a    *)
(* request is a record appended to a log, a response is a JSON body the    *)
(* environment picks.  Each coroutine is a small state machine whose       *)
(* steps are the stretches of code between two suspension points.          *)
(***************************************************************************)
EXTENDS Integers, Sequences, FiniteSets, TLC

VARIABLES
    \* ---- get_top_streamers ----
    count0,     \* the count argument as passed by the caller
    count,      \* the local `count` (remaining)
    batch,      \* the local `batch` of the current iteration
    cursor,     \* the local `cursor`
    result,     \* the local `result`
    pc,         \* "idle" | "loop" | "await" | "returned" | "raised"
    requests,   \* session.get calls made: <<[first, after], ...>>
    responses,  \* JSON bodies received, in order
    raised,     \* the exception that left the call, or NoError
    ret,        \* the value returned to the caller, or Nothing
    \* ---- get_current_viewers ----
    channel,    \* the channel argument
    vpc,        \* "idle" | "call" | "await" | "returned" | "raised"
    vrequests,  \* session.get calls made: <<url, ...>>
    vbody,      \* the JSON body received, or Nothing
    vret,       \* the list returned, or Nothing
    \* ---- get_viewer_map ----
    streamers,  \* the streamers argument (a list)
    mpc,        \* "idle" | "call" | "gather" | "returned" | "raised"
    task,       \* task[i]: "new" | "await" | "done" | "failed", one per list element
    url,        \* url[i]: the URLs task i requested, in order
    fetched,    \* fetched[i]: what get_current_viewers returned to task i, or Nothing
    data,       \* the shared dict `data`
    events,     \* the tasks' ends in the order they happened: [task, key stored or None]
    mret        \* the dict returned to the caller, or Nothing

topVars == <<count0, count, batch, cursor, result, pc, requests, responses, raised, ret>>
viewerVars == <<channel, vpc, vrequests, vbody, vret>>
mapVars == <<streamers, mpc, task, url, fetched, data, events, mret>>
vars == <<topVars, viewerVars, mapVars>>

\* ------------------------------------------------------------------ bounds
\* Largest count argument explored.
MaxCount == 250
\* Longest role group in a chatters payload.
MaxGroupLen == 2
\* Longest streamers list handed to get_viewer_map.
MaxStreamers == 3

\* ------------------------------------------------------------- python values
\* Python's None among strings.
None == "<None>"

\* An absent value (nothing returned yet) and a present one.
Nothing == <<>>
Some(v) == <<v>>

Min(a, b) == IF a <= b THEN a ELSE b

\* Python truthiness of a string or None.
Truthy(v) == v # None /\ v # ""

\* dict.get(key): the value, or None when the key is absent.
Get(d, key) == IF key \in DOMAIN d THEN d[key] ELSE None

NoError == [type |-> "", arg |-> ""]
Exception(msg) == [type |-> "Exception", arg |-> msg]
\* what session.get or response.json() raise by themselves
ClientError == [type |-> "ClientError", arg |-> ""]
KeyError(key) == [type |-> "KeyError", arg |-> key]

\* ============================================================================
\* get_top_streamers
\* ============================================================================
TWITCH_PAGE_SIZE == 100

\* The count arguments explored.
Counts == 0..MaxCount

Cursors == {"c1", "c2"}

\* The 'data' array of a page holding n streams.
Streams(n) == [i \in 1..n |-> [user_login |-> i, type |-> "live"]]

\* How many items a page may hold when `first` items were asked for: none, one
\* fewer, exactly as many, one more.
PageLens(first) == {n \in {0, first - 1, first, first + 1} : n >= 0}

\* The JSON bodies the streams endpoint may answer a request for `first` items with.
Bodies(first) ==
    \* a page
    {[pagination |-> [cursor |-> c], data |-> Streams(n)] :
        c \in Cursors, n \in PageLens(first)}
    \* the last page: no cursor in 'pagination'
    \cup {[pagination |-> <<>>, data |-> Streams(n)] : n \in {0, first}}
    \* an error body
    \cup {[error |-> "Unauthorized", message |-> m] : m \in {"invalid token", ""}}
    \* a page that also carries a message field
    \cup {[message |-> m, pagination |-> [cursor |-> "c1"], data |-> Streams(first)] :
            m \in {"invalid token", ""}}
    \* bodies lacking a field
    \cup {[pagination |-> [cursor |-> "c1"]], [error |-> "Not Found"]}

ContinueFullPagesOnly(c) == c >= TWITCH_PAGE_SIZE
\* line 35
Continue(c) == c # 0

BatchWholePage(c) == TWITCH_PAGE_SIZE
\* line 36
Batch(c) == Min(c, TWITCH_PAGE_SIZE)

RemainingLessOne(c, b) == IF b > 1 THEN c - (b - 1) ELSE c - b
\* line 38
Remaining(c, b) == c - b

\* line 37: the query parameters of the URL
Url(first, after) == [first |-> first, after |-> after]

\* line 46: msg := data.get('message'); the if is taken when msg is truthy
IsError(body) == Truthy(Get(body, "message"))

NextCursorKept(old, body) == old
\* line 49
NextCursor(old, body) == body.pagination.cursor

\* line 51: element['user_login'] for element in data['data']
Logins(body) == [i \in 1..Len(body.data) |-> body.data[i].user_login]

TopIdle ==
    /\ count0 = 0 /\ count = 0 /\ batch = 0 /\ cursor = "" /\ result = <<>>
    /\ pc = "idle" /\ requests = <<>> /\ responses = <<>>
    /\ raised = NoError /\ ret = Nothing

\* lines 32-33: the state on entry of the loop
TopInit ==
    /\ count0 \in Counts
    /\ count = count0
    /\ batch = 0
    /\ cursor = ""
    /\ result = <<>>
    /\ pc = "loop"
    /\ requests = <<>>
    /\ responses = <<>>
    /\ raised = NoError
    /\ ret = Nothing

\* lines 35-42: one iteration up to the suspension in session.get
TopRequest ==
    /\ pc = "loop"
    /\ Continue(count)
    /\ batch' = Batch(count)
    /\ requests' = Append(requests, Url(batch', cursor))
    /\ count' = Remaining(count, batch')
    /\ pc' = "await"
    /\ UNCHANGED <<count0, cursor, result, responses, raised, ret>>
    /\ UNCHANGED <<viewerVars, mapVars>>

\* lines 43-51: the body arrives and is processed
TopResponse ==
    /\ pc = "await"
    /\ \E body \in Bodies(batch) :
        /\ responses' = Append(responses, body)
        /\ IF IsError(body)
             THEN /\ raised' = Exception(Get(body, "message"))
                  /\ pc' = "raised"
                  /\ UNCHANGED <<cursor, result>>
           ELSE IF "pagination" \notin DOMAIN body
             THEN /\ raised' = KeyError("pagination")
                  /\ pc' = "raised"
                  /\ UNCHANGED <<cursor, result>>
           ELSE IF "cursor" \notin DOMAIN body.pagination
             THEN /\ raised' = KeyError("cursor")
                  /\ pc' = "raised"
                  /\ UNCHANGED <<cursor, result>>
           ELSE IF "data" \notin DOMAIN body
             THEN /\ raised' = KeyError("data")
                  /\ pc' = "raised"
                  /\ cursor' = NextCursor(cursor, body)
                  /\ UNCHANGED result
           ELSE /\ cursor' = NextCursor(cursor, body)
                /\ result' = result \o Logins(body)
                /\ pc' = "loop"
                /\ UNCHANGED raised
    /\ UNCHANGED <<count0, count, batch, requests, ret>>
    /\ UNCHANGED <<viewerVars, mapVars>>

\* lines 42-43: the request or the JSON decoding raises
TopNetworkError ==
    /\ pc = "await"
    /\ raised' = ClientError
    /\ pc' = "raised"
    /\ UNCHANGED <<count0, count, batch, cursor, result, requests, responses, ret>>
    /\ UNCHANGED <<viewerVars, mapVars>>

\* lines 35, 53: the loop condition fails and the list is returned
TopReturn ==
    /\ pc = "loop"
    /\ ~Continue(count)
    /\ pc' = "returned"
    /\ ret' = Some(result)
    /\ UNCHANGED <<count0, count, batch, cursor, result, requests, responses, raised>>
    /\ UNCHANGED <<viewerVars, mapVars>>

\* ============================================================================
\* get_current_viewers
\* ============================================================================
Channels == {"ChannelX", "channelx", "ch1"}

\* str.lower() on the channel names explored
Lower(name) == IF name = "ChannelX" THEN "channelx" ELSE name

\* line 61: the path of the URL, which is all that varies
ChattersUrl(name) == <<"group", "user", Lower(name), "chatters">>

Roles == {"viewers", "moderators", "vips"}
ViewerNames == {"a", "b"}

\* The role groups explored: the lists of at most MaxGroupLen viewer names.
Groups == UNION {[1..n -> ViewerNames] : n \in 0..MaxGroupLen}

\* The 'chatters' objects explored. A JSON object keeps the order of its keys,
\* so it is a list of (role, group) pairs whose roles are distinct.
ChattersObjects ==
    UNION {{od \in [1..n -> [role : Roles, group : Groups]] :
                \A i, j \in 1..n : od[i].role = od[j].role => i = j} :
           n \in 0..Cardinality(Roles)}

\* The JSON bodies the chatters endpoint may answer with.
ChatterBodies ==
    {[chatter_count |-> 0, chatters |-> od] : od \in ChattersObjects}
    \cup {[error |-> "Not Found"]}

\* dict.values(): the values in key order
Values(od) == [i \in 1..Len(od) |-> od[i].group]

FlattenReversedGroups(groups) ==
    LET RECURSIVE Rev(_)
        Rev(gs) == IF gs = <<>> THEN <<>> ELSE Rev(Tail(gs)) \o
                     [i \in 1..Len(Head(gs)) |-> Head(gs)[Len(Head(gs)) + 1 - i]]
    IN Rev(groups)
\* line 63: [viewer for group in ... for viewer in group]
RECURSIVE Flatten(_)
Flatten(groups) ==
    IF groups = <<>> THEN <<>> ELSE Head(groups) \o Flatten(Tail(groups))

\* line 63
Viewers(body) == Flatten(Values(body.chatters))

ViewerIdle ==
    /\ channel = None /\ vpc = "idle" /\ vrequests = <<>>
    /\ vbody = Nothing /\ vret = Nothing

ViewerInit ==
    /\ channel \in Channels
    /\ vpc = "call"
    /\ vrequests = <<>>
    /\ vbody = Nothing
    /\ vret = Nothing

\* line 61: session.get is entered
ViewerRequest ==
    /\ vpc = "call"
    /\ vrequests' = Append(vrequests, ChattersUrl(channel))
    /\ vpc' = "await"
    /\ UNCHANGED <<channel, vbody, vret>>
    /\ UNCHANGED <<topVars, mapVars>>

\* lines 62-67: the body arrives; data['chatters'] raises KeyError when absent
ViewerResponse ==
    /\ vpc = "await"
    /\ \E body \in ChatterBodies :
        /\ vbody' = Some(body)
        /\ IF "chatters" \in DOMAIN body
             THEN /\ vret' = Some(Viewers(body))
                  /\ vpc' = "returned"
             ELSE /\ vpc' = "raised"
                  /\ UNCHANGED vret
    /\ UNCHANGED <<channel, vrequests>>
    /\ UNCHANGED <<topVars, mapVars>>

\* lines 61-62: the request or the JSON decoding raises
ViewerNetworkError ==
    /\ vpc = "await"
    /\ vpc' = "raised"
    /\ UNCHANGED <<channel, vrequests, vbody, vret>>
    /\ UNCHANGED <<topVars, mapVars>>

\* ============================================================================
\* get_viewer_map
\* ============================================================================
\* The streamers lists explored: every list of at most MaxStreamers channel
\* names, repeated names included.
StreamerLists == UNION {[1..n -> Channels] : n \in 0..MaxStreamers}

\* The bodies the chatters endpoint answers the tasks with.
TaskBodies ==
    { [chatter_count |-> 2, chatters |->
          <<[role |-> "viewers", group |-> <<"a", "b">>],
            [role |-> "moderators", group |-> <<"c">>]>>],
      [chatter_count |-> 1, chatters |->
          <<[role |-> "moderators", group |-> <<"b">>],
            [role |-> "viewers", group |-> <<>>]>>],
      [error |-> "Not Found"] }

Tasks == 1..Len(streamers)

ScheduledFirstOnly(list) == {i \in 1..Len(list) : i = 1}
\* line 84: map(add_viewers_task, streamers) makes one coroutine per element
\* and gather schedules them all
Scheduled(list) == 1..Len(list)

ReturnExceptionsOff == FALSE
\* line 84: return_exceptions=True
ReturnExceptions == TRUE

StoreKeyLowered(name) == Lower(name)
\* line 81: the key of data[streamer]
StoreKey(name) == name

\* line 81: data[streamer] = value
SetItem(d, key, value) ==
    [k \in DOMAIN d \cup {key} |-> IF k = key THEN value ELSE d[k]]

MapIdle ==
    /\ streamers = <<>> /\ mpc = "idle" /\ task = <<>> /\ url = <<>>
    /\ fetched = <<>> /\ data = <<>> /\ events = <<>> /\ mret = Nothing

\* line 78: the state before gather is called
MapInit ==
    /\ streamers \in StreamerLists
    /\ mpc = "call"
    /\ task = [i \in Tasks |-> "none"]
    /\ url = [i \in Tasks |-> <<>>]
    /\ fetched = [i \in Tasks |-> Nothing]
    /\ data = <<>>
    /\ events = <<>>
    /\ mret = Nothing

\* line 84: gather wraps the coroutines in tasks and the caller suspends
MapGather ==
    /\ mpc = "call"
    /\ task' = [i \in Tasks |-> IF i \in Scheduled(streamers) THEN "new" ELSE "none"]
    /\ mpc' = "gather"
    /\ UNCHANGED <<streamers, url, fetched, data, events, mret>>
    /\ UNCHANGED <<topVars, viewerVars>>

\* lines 81, 61: task i runs up to the suspension in session.get
TaskRequest(i) ==
    /\ task[i] = "new"
    /\ url' = [url EXCEPT ![i] = Append(@, ChattersUrl(streamers[i]))]
    /\ task' = [task EXCEPT ![i] = "await"]
    /\ UNCHANGED <<streamers, mpc, fetched, data, events, mret>>
    /\ UNCHANGED <<topVars, viewerVars>>

\* lines 62-67, 81: task i gets its body; get_current_viewers returns the
\* list and the task stores it, or KeyError ends the task
TaskResponse(i) ==
    /\ task[i] = "await"
    /\ \E body \in TaskBodies :
        IF "chatters" \in DOMAIN body
          THEN /\ fetched' = [fetched EXCEPT ![i] = Some(Viewers(body))]
               /\ data' = SetItem(data, StoreKey(streamers[i]), Viewers(body))
               /\ events' = Append(events, [task |-> i, key |-> StoreKey(streamers[i])])
               /\ task' = [task EXCEPT ![i] = "done"]
          ELSE /\ task' = [task EXCEPT ![i] = "failed"]
               /\ events' = Append(events, [task |-> i, key |-> None])
               /\ UNCHANGED <<fetched, data>>
    /\ UNCHANGED <<streamers, mpc, url, mret>>
    /\ UNCHANGED <<topVars, viewerVars>>

\* lines 61-62: the request of task i or its JSON decoding raises
TaskNetworkError(i) ==
    /\ task[i] = "await"
    /\ task' = [task EXCEPT ![i] = "failed"]
    /\ events' = Append(events, [task |-> i, key |-> None])
    /\ UNCHANGED <<streamers, mpc, url, fetched, data, mret>>
    /\ UNCHANGED <<topVars, viewerVars>>

\* What the awaited gather does once the tasks are in the states ts: with
\* return_exceptions it resumes the caller when no task is left running;
\* without, it also raises into the caller at the first failure.
GatherOutcome(ts) ==
    IF \A i \in DOMAIN ts : ts[i] \in {"done", "failed"} /\ ReturnExceptions
         THEN "returned"
    ELSE IF \A i \in DOMAIN ts : ts[i] = "done" THEN "returned"
    ELSE IF ~ReturnExceptions /\ \E i \in DOMAIN ts : ts[i] = "failed" THEN "raised"
    ELSE "gather"

\* lines 84-88: gather resumes the caller, which returns data
MapReturn ==
    /\ mpc = "gather"
    /\ GatherOutcome(task) # "gather"
    /\ mpc' = GatherOutcome(task)
    /\ mret' = IF GatherOutcome(task) = "returned" THEN Some(data) ELSE Nothing
    /\ UNCHANGED <<streamers, task, url, fetched, data, events>>
    /\ UNCHANGED <<topVars, viewerVars>>

\* ============================================================================
\* specifications
\* ============================================================================
\* one call of get_top_streamers
InitTop == TopInit /\ ViewerIdle /\ MapIdle
NextTop == TopRequest \/ TopResponse \/ TopNetworkError \/ TopReturn
SpecTop == InitTop /\ [][NextTop]_vars
\* the event loop resumes a runnable coroutine and every request is answered
FairSpecTop == SpecTop /\ WF_vars(NextTop)

\* one call of get_current_viewers
InitViewer == TopIdle /\ ViewerInit /\ MapIdle
NextViewer == ViewerRequest \/ ViewerResponse \/ ViewerNetworkError
SpecViewer == InitViewer /\ [][NextViewer]_vars

\* one call of get_viewer_map
InitMap == TopIdle /\ ViewerIdle /\ MapInit
NextMap ==
    \/ MapGather
    \/ \E i \in Tasks : TaskRequest(i)
    \/ \E i \in Tasks : TaskResponse(i)
    \/ \E i \in Tasks : TaskNetworkError(i)
    \/ MapReturn
SpecMap == InitMap /\ [][NextMap]_vars

\* one call of any of the three
Init == InitTop \/ InitViewer \/ InitMap
Next == NextTop \/ NextViewer \/ NextMap
Spec == Init /\ [][Next]_vars

\* ============================================================================
\* properties
\* ============================================================================
CeilDiv(a, b) == (a + b - 1) \div b

\* the batch sizes asked for by the first k requests, summed
RECURSIVE Asked(_)
Asked(k) == IF k = 0 THEN 0 ELSE Asked(k - 1) + requests[k].first

\* the items carried by the first k responses, summed
RECURSIVE Received(_)
Received(k) == IF k = 0 THEN 0 ELSE Received(k - 1) + Len(responses[k].data)

Firsts == [k \in 1..Len(requests) |-> requests[k].first]

\* ---------------------------------------------------------------------- C1
\* C1 as stated: a call that returns normally returns at most count0 items,
\* and exactly count0 when every page holds exactly the number of items its
\* request asked for; for count0 = 0 the list is empty and nothing is
\* requested.
C1_LengthAtMostCount ==
    pc = "returned" =>
        /\ Len(ret[1]) <= count0
        /\ (\A k \in 1..Len(responses) : Len(responses[k].data) = requests[k].first)
              => Len(ret[1]) = count0
        /\ count0 = 0 => ret[1] = <<>> /\ requests = <<>>

\* C1 as amended: a call that returns normally returns as many items as its
\* pages carried; that is at most count0 when no page holds more items than
\* its request asked for, and exactly count0 when every page holds exactly
\* that many; for count0 = 0 the list is empty and nothing is requested.
C1_LengthIsItemsReceived ==
    pc = "returned" =>
        /\ Len(ret[1]) = Received(Len(responses))
        /\ (\A k \in 1..Len(responses) : Len(responses[k].data) <= requests[k].first)
              => Len(ret[1]) <= count0
        /\ (\A k \in 1..Len(responses) : Len(responses[k].data) = requests[k].first)
              => Len(ret[1]) = count0
        /\ count0 = 0 => ret[1] = <<>> /\ requests = <<>>

\* three full pages were received and 250 items returned
C1_Witness ==
    /\ pc = "returned"
    /\ count0 = 250
    /\ Len(responses) = 3
    /\ \A k \in 1..3 : Len(responses[k].data) = requests[k].first
    /\ Len(ret[1]) = 250

\* ---------------------------------------------------------------------- C2
\* C2: request k asks for min(remaining, 100) items, remaining being count0
\* less the batch sizes asked for before; a call that returns normally made
\* ceil(count0 / 100) requests whose batch sizes sum to count0; for
\* count0 = 250 they are 100, 100, 50.
C2_BatchSizes ==
    /\ \A k \in 1..Len(requests) :
          requests[k].first = Min(count0 - Asked(k - 1), 100)
    /\ pc = "returned" =>
          /\ Len(requests) = CeilDiv(count0, 100)
          /\ Asked(Len(requests)) = count0
          /\ count0 = 250 => Firsts = <<100, 100, 50>>

C2_Witness ==
    /\ pc = "returned"
    /\ count0 = 250
    /\ Firsts = <<100, 100, 50>>

\* ---------------------------------------------------------------------- C3
\* C3: the first request carries the empty cursor; request N+1 exists only
\* once response N has arrived and carries that response's
\* pagination.cursor; at most one request is unanswered at any time.
C3_CursorThreading ==
    /\ Len(requests) - Len(responses) \in {0, 1}
    /\ pc = "await" => Len(requests) = Len(responses) + 1
    /\ pc \in {"loop", "returned"} => Len(requests) = Len(responses)
    /\ \A k \in 1..Len(requests) :
          requests[k].after =
              IF k = 1 THEN "" ELSE responses[k - 1].pagination.cursor

\* a third request was made after two pages with different cursors
C3_Witness ==
    /\ Len(requests) = 3
    /\ requests[2].after = "c2"
    /\ requests[3].after = "c1"
    /\ pc = "await"

\* ---------------------------------------------------------------------- C4
\* C4: once a response carries a message field, the call has failed with an
\* error carrying that message, that response was answering the last request
\* made, and nothing was returned.
C4_MessageFailsTheCall ==
    \A k \in 1..Len(responses) :
        "message" \in DOMAIN responses[k] =>
            /\ pc = "raised"
            /\ raised = Exception(responses[k].message)
            /\ Len(requests) = k
            /\ ret = Nothing

\* ---------------------------------------------------------------------- C9
\* C9: the loop ends; every request lowers the remaining count by the batch
\* size it asks for; the number of requests never exceeds
\* ceil(count0 / 100) and is exactly that in a call that returns, whatever
\* the pages held; the loop is left by its condition exactly when the
\* remaining count is zero.
C9_LoopTerminates ==
    /\ <>(pc \in {"returned", "raised"})
    /\ [][pc = "loop" /\ pc' = "await" =>
            count' = count - requests'[Len(requests')].first]_vars
    /\ [](Len(requests) <= CeilDiv(count0, TWITCH_PAGE_SIZE))
    /\ [](pc = "returned" =>
            count = 0 /\ Len(requests) = CeilDiv(count0, TWITCH_PAGE_SIZE))
    /\ [][pc = "loop" => (pc' = "returned" <=> count = 0)]_vars

\* a call returned after three requests although a page came back empty and
\* another one short
C9_Witness ==
    /\ pc = "returned"
    /\ count = 0
    /\ Len(requests) = 3
    /\ Len(responses[1].data) = 0
    /\ Len(responses[2].data) = requests[2].first - 1

\* ---------------------------------------------------------------------- C6
\* the groups gs written one after the other
RECURSIVE Joined(_)
Joined(gs) ==
    IF Len(gs) = 0 THEN <<>>
    ELSE Joined(SubSeq(gs, 1, Len(gs) - 1)) \o gs[Len(gs)]

RECURSIVE TotalLen(_)
TotalLen(gs) == IF gs = <<>> THEN 0 ELSE Len(Head(gs)) + TotalLen(Tail(gs))

\* C6: get_current_viewers makes exactly one request; the list it returns
\* is the role groups of the body written one after the other in some order
\* of the groups, each group in its own order, so that its length is the sum
\* of the group lengths.
C6_FlattenedGroups ==
    /\ Len(vrequests) <= 1
    /\ vpc \in {"await", "returned", "raised"} => Len(vrequests) = 1
    /\ vpc = "returned" =>
          LET od == vbody[1].chatters
              n == Len(od)
          IN  /\ Len(vret[1]) = TotalLen([i \in 1..n |-> od[i].group])
              /\ \E order \in Permutations(1..n) :
                    vret[1] = Joined([i \in 1..n |-> od[order[i]].group])

\* two viewers and one moderator came back as a list of three
C6_Witness ==
    /\ vpc = "returned"
    /\ vbody[1].chatters = <<[role |-> "viewers", group |-> <<"a", "b">>],
                             [role |-> "moderators", group |-> <<"b">>]>>
    /\ vret[1] = <<"a", "b", "b">>
    /\ Len(vrequests) = 1

\* ---------------------------------------------------------------------- C5
Succeeded == {i \in Tasks : task[i] = "done"}
Failed == {i \in Tasks : task[i] = "failed"}

\* C5 as stated: no exception reaches the caller of get_viewer_map; the map
\* returned has no entry for a channel whose fetch failed and an entry for
\* every channel whose fetch succeeded.
C5_FailedAbsentSucceededPresent ==
    /\ mpc # "raised"
    /\ mpc = "returned" =>
          /\ \A i \in Failed : streamers[i] \notin DOMAIN mret[1]
          /\ \A i \in Succeeded : streamers[i] \in DOMAIN mret[1]

\* C5 as amended: no exception reaches the caller; the map returned has an
\* entry for exactly the channels of which some fetch succeeded, so none for
\* a channel all of whose fetches failed.
C5_EntriesAreTheSucceededChannels ==
    /\ mpc # "raised"
    /\ mpc = "returned" =>
          /\ DOMAIN mret[1] = {streamers[i] : i \in Succeeded}
          /\ \A i \in Failed :
                (\A j \in Succeeded : streamers[j] # streamers[i])
                    => streamers[i] \notin DOMAIN mret[1]

\* the second channel's fetch failed, ch1's succeeded, and the call returned
\* ch1's entry alone
C5_Witness ==
    /\ mpc = "returned"
    /\ streamers = <<"ch1", "channelx">>
    /\ task = <<"done", "failed">>
    /\ DOMAIN mret[1] = {"ch1"}

\* ---------------------------------------------------------------------- C7
\* C7: every task fetches exactly once; every key of the map returned is a
\* name of the input list as supplied, and its value is the list a fetch for
\* an element of that name returned.
C7_OwnFetchUnderOwnName ==
    /\ \A i \in Tasks : Len(url[i]) <= 1
    /\ mpc = "returned" =>
          /\ \A i \in Tasks : Len(url[i]) = 1
          /\ \A k \in DOMAIN mret[1] :
                \E i \in Succeeded :
                    streamers[i] = k /\ fetched[i] = Some(mret[1][k])

\* two names that differ only in case are two keys, each with its own list
C7_Witness ==
    /\ mpc = "returned"
    /\ streamers = <<"ChannelX", "channelx">>
    /\ DOMAIN mret[1] = {"ChannelX", "channelx"}
    /\ mret[1]["ChannelX"] = <<"a", "b", "c">>
    /\ mret[1]["channelx"] = <<"b">>

\* ---------------------------------------------------------------------- C8
Stored == {p \in 1..Len(events) : events[p].key # None}

\* C8 as stated: no two tasks write the same key, and the map returned holds
\* for every task that stored a list the list this task fetched, whatever
\* the order in which the tasks ended.
C8_DistinctKeys ==
    /\ \A p, q \in Stored : p # q => events[p].key # events[q].key
    /\ mpc = "returned" =>
          \A i \in Succeeded :
              /\ streamers[i] \in DOMAIN mret[1]
              /\ mret[1][streamers[i]] = fetched[i][1]

\* C8 as amended: two tasks write the same key exactly when their channel
\* names are equal; for an input list without a repeated name no two tasks
\* write the same key and the map returned holds for every task that stored
\* a list the list this task fetched, whatever the order in which the tasks
\* ended.
C8_SameKeyIffSameName ==
    /\ \A p, q \in Stored :
          p # q => (events[p].key = events[q].key
                      <=> streamers[events[p].task] = streamers[events[q].task])
    /\ (\A i, j \in Tasks : streamers[i] = streamers[j] => i = j) =>
          /\ \A p, q \in Stored : p # q => events[p].key # events[q].key
          /\ mpc = "returned" =>
                \A i \in Succeeded :
                    /\ streamers[i] \in DOMAIN mret[1]
                    /\ mret[1][streamers[i]] = fetched[i][1]

\* three different names, stored in an order that is not the list's
C8_Witness ==
    /\ mpc = "returned"
    /\ streamers = <<"ChannelX", "channelx", "ch1">>
    /\ Len(events) = 3
    /\ events[1] = [task |-> 3, key |-> "ch1"]
    /\ events[2] = [task |-> 1, key |-> "ChannelX"]
    /\ events[3] = [task |-> 2, key |-> "channelx"]
    /\ fetched[1] # fetched[2]

\* --------------------------------------------------------------------- C10
\* C10: while the caller waits in gather every task has been started, and no
\* task gets any further before all have been; the call ends only when every
\* task is done or has failed; a step in which a task fails changes no other
\* task and does not end the call.
C10_AllStartedAllAwaited ==
    /\ [](mpc = "gather" => \A i \in Tasks : task[i] # "none")
    /\ []((\E i \in Tasks : task[i] \in {"await", "done", "failed"})
              => \A j \in Tasks : task[j] # "none")
    /\ [](mpc \in {"returned", "raised"}
              => \A i \in Tasks : task[i] \in {"done", "failed"})
    /\ [][\A i \in Tasks :
              (task[i] # "failed" /\ task'[i] = "failed")
                  => /\ mpc' = mpc
                     /\ \A j \in Tasks \ {i} : task'[j] = task[j]]_vars

\* a task failed, another one ended well after that, and the call returned
C10_Witness ==
    /\ mpc = "returned"
    /\ \E p, q \in 1..Len(events) :
          /\ p < q
          /\ events[p].key = None
          /\ events[q].key # None

====
